---- MODULE Spec2Model ----
(***************************************************************************)
(* Task handlers of the task-manager application                           *)
(* (task_manager/app/app/views/tasks.py) over the relational store         *)
(* (Team, Task, Comment rows).                                             *)
(*   Spec       every view is one action, requests are served one by one   *)
(*   SpecViews  the two list views over stores that hold several tasks     *)
(*   SpecConc   accept / mark-completed / delete split into their ORM      *)
(*              steps (load the row, test, write the row), for requests    *)
(*              that are served concurrently on one task                   *)
(* The models (app/models.py), the forms (app/forms.py) and the team views *)
(* (app/views/teams.py) are not part of the sources at hand; what the task *)
(* views need of them is written down from the specification.              *)
(***************************************************************************)
EXTENDS Integers, Sequences, FiniteSets, TLC

\* ------------------------------------------------------------- bounds ----
NumUsers    == 2    \* authenticated users 1..NumUsers
MaxTasks    == 1    \* Task rows ever inserted (auto-increment ids)
MaxTeams    == 1    \* Team rows ever inserted
MaxComments == 1    \* Comment rows ever inserted
MaxDay      == 1    \* datetime.date.today() ranges over 0..MaxDay
MaxBodyLen  == 2    \* length of a posted comment_body
MaxReqs     == 3    \* requests in flight at once (SpecConc)
MaxListed   == 2    \* Task rows in the store the list views are asked about (SpecViews)

Users   == 1..NumUsers
TaskIds == 1..MaxTasks
TeamIds == 1..MaxTeams
Days    == 0..MaxDay
ReqIds  == 1..MaxReqs

\* None for a nullable foreign key / date column
NoUser == 0
NoTeam == 0
NoDate == 0 - 1

\* characters a posted comment body is made of: a blank, a letter
Chars  == {" ", "a"}
Bodies == UNION {[1..n -> Chars] : n \in 0..MaxBodyLen}

NoResponse == [view |-> "", code |-> 0, message |-> "", rows |-> <<>>]

VARIABLES
    Task,       \* Task table: id -> row
    Team,       \* Team table: id -> [leader, members]
    Comment,    \* Comment table: id -> [author, task, body]
    nextTask,   \* number of Task rows inserted so far
    nextComment,\* number of Comment rows inserted so far
    today,      \* datetime.date.today()
    response,   \* the last HTTP response
    reqs,       \* requests in flight (SpecConc): id -> [view, user, task_id, pc, task, code]
    accepted,   \* per task id: number of task_accept requests that succeeded
    completed,  \* per task id: number of task_mark_completed requests that succeeded
    events      \* what racing writes did to the store (SpecConc)

vars == <<Task, Team, Comment, nextTask, nextComment, today, response, reqs,
          accepted, completed, events>>

\* ------------------------------------------------------------ helpers ----
Remove(f, k) == [i \in DOMAIN f \ {k} |-> f[i]]

Respond(view, code, message) ==
    [view |-> view, code |-> code, message |-> message, rows |-> <<>>]

\* Team.objects.filter(leader=request.user)
LedBy(user) == {g \in DOMAIN Team : Team[g].leader = user}

\* Task model defaults of a new, unsaved instance
NewTask ==
    [creator |-> NoUser, team |-> NoTeam, assigned_to |-> {}, status |-> "PLAN",
     accepted_by |-> NoUser, accepted_date |-> NoDate, completed_date |-> NoDate]

\* TaskCreationForm.is_valid(): the team is none or one of initial['teams']
TaskCreationForm_is_valid(user, team) == team \in {NoTeam} \cup LedBy(user)

\* TaskEditForm.is_valid(): the team is none or one of initial['teams']; the
\* assignees are chosen among initial['members'] when the task has a team and
\* stay as they are when it has none
TaskEditForm_is_valid(user, task, members, has_team, team, assigned) ==
    /\ team \in {NoTeam} \cup LedBy(user)
    /\ has_team => assigned \subseteq members
    /\ ~has_team => assigned = task.assigned_to

\* TaskCreationForm.save(commit=False): the form's own fields on a new instance
TaskCreationForm_save(team) == [NewTask EXCEPT !.team = team]

\* TaskEditForm.save(): the form's own fields written to the instance
TaskEditForm_save(task, team, assigned) ==
    [task EXCEPT !.team = team, !.assigned_to = assigned]

Init ==
    /\ Task = <<>>
    /\ Team = <<>>
    /\ Comment = <<>>
    /\ nextTask = 0
    /\ today = 0
    /\ response = NoResponse
    /\ reqs = <<>>
    /\ accepted = [t \in TaskIds |-> 0]
    /\ completed = [t \in TaskIds |-> 0]
    /\ nextComment = 0
    /\ events = {}

\* the date moves on
Tick ==
    /\ today < MaxDay
    /\ today' = today + 1
    /\ UNCHANGED <<Task, Team, Comment, nextTask, nextComment, response, reqs, accepted, completed, events>>

\* ------------------------------------------------------ team handlers ----
\* (app/views/teams.py: the leader alone changes the members of a team)
team_create(user) ==
    /\ Cardinality(DOMAIN Team) < MaxTeams
    /\ Team' = Team @@ ((Cardinality(DOMAIN Team) + 1) :> [leader |-> user, members |-> {}])
    /\ response' = Respond("team_create", 302, "success")
    /\ UNCHANGED <<Task, Comment, nextTask, nextComment, today, reqs, accepted, completed, events>>

team_add_member(user, team_id, member) ==
    /\ team_id \in DOMAIN Team
    /\ IF user = Team[team_id].leader
       THEN /\ Team' = [Team EXCEPT ![team_id].members = @ \cup {member}]
            /\ response' = Respond("team_add_member", 302, "success")
       ELSE /\ Team' = Team
            /\ response' = Respond("team_add_member", 403, "")
    /\ UNCHANGED <<Task, Comment, nextTask, nextComment, today, reqs, accepted, completed, events>>

team_remove_member(user, team_id, member) ==
    /\ team_id \in DOMAIN Team
    /\ IF user = Team[team_id].leader
       THEN /\ Team' = [Team EXCEPT ![team_id].members = @ \ {member}]
            /\ response' = Respond("team_remove_member", 302, "success")
       ELSE /\ Team' = Team
            /\ response' = Respond("team_remove_member", 403, "")
    /\ UNCHANGED <<Task, Comment, nextTask, nextComment, today, reqs, accepted, completed, events>>

\* ------------------------------------------------------ task handlers ----
\* variant: the creator is not assigned to the new task
assigned_to_add_forgotten(task, user) == task

\* line 28: new_task.assigned_to.add(request.user)
assigned_to_add(task, user) == [task EXCEPT !.assigned_to = @ \cup {user}]

task_create(user, method, form_valid, team) ==
    /\ nextTask < MaxTasks
    /\ IF method = "POST" /\ form_valid
       THEN LET new_task == [TaskCreationForm_save(team) EXCEPT !.creator = user]
                id == nextTask + 1
            IN /\ TaskCreationForm_is_valid(user, team)
               /\ Task' = Task @@ (id :> assigned_to_add(new_task, user))
               /\ nextTask' = id
               /\ response' = Respond("task_create", 302, "success")
       ELSE /\ UNCHANGED <<Task, nextTask>>
            /\ response' = Respond("task_create", 200, "")
    /\ UNCHANGED <<Team, Comment, nextComment, today, reqs, accepted, completed, events>>

\* line 55: only the creator, only while the task is Planned
task_edit_permitted(user, task) == user = task.creator /\ task.status = "PLAN"

task_edit(user, task_id, method, form_valid, team, assigned) ==
    /\ IF task_id \notin DOMAIN Task
       THEN /\ Task' = Task
            /\ response' = Respond("task_edit", 404, "")
       ELSE LET task == Task[task_id]
                has_team == task.team # NoTeam
                members == IF has_team THEN Team[task.team].members ELSE {}
            IN IF task_edit_permitted(user, task)
               THEN IF method = "POST" /\ form_valid
                    THEN /\ TaskEditForm_is_valid(user, task, members, has_team, team, assigned)
                         /\ Task' = [Task EXCEPT ![task_id] =
                                        TaskEditForm_save(task, team, assigned)]
                         /\ response' = Respond("task_edit", 302, "success")
                    ELSE /\ Task' = Task
                         /\ response' = Respond("task_edit", 200, "")
               ELSE /\ Task' = Task
                    /\ response' = Respond("task_edit", 403, "")
    /\ UNCHANGED <<Team, Comment, nextTask, nextComment, today, reqs, accepted, completed, events>>

\* variant: the status test is left out
task_delete_permitted_any_status(user, task) == user = task.creator

\* line 96
task_delete_permitted(user, task) == user = task.creator /\ task.status = "PLAN"

\* task.delete(): the row, its assigned_to rows and its comments
Comment_without(task_id) ==
    [c \in {d \in DOMAIN Comment : Comment[d].task # task_id} |-> Comment[c]]

task_delete(user, task_id) ==
    /\ IF task_id \notin DOMAIN Task
       THEN /\ UNCHANGED <<Task, Comment>>
            /\ response' = Respond("task_delete", 404, "")
       ELSE LET task == Task[task_id]
            IN IF task_delete_permitted(user, task)
               THEN /\ Task' = Remove(Task, task_id)
                    /\ Comment' = Comment_without(task_id)
                    /\ response' = Respond("task_delete", 302, "success")
               ELSE /\ UNCHANGED <<Task, Comment>>
                    /\ response' = Respond("task_delete", 403, "")
    /\ UNCHANGED <<Team, nextTask, nextComment, today, reqs, accepted, completed, events>>

\* ---- the list views' queries, evaluated the way the ORM evaluates them ----
RECURSIVE Ascending(_)
Ascending(S) ==
    IF S = {} THEN <<>>
    ELSE LET m == CHOOSE x \in S : \A y \in S : x <= y
         IN <<m>> \o Ascending(S \ {m})

\* Task LEFT OUTER JOIN Task_assigned_to: one row per (task, assignee), and
\* one row with a NULL assignee for a task nobody is assigned to
JoinOf(id) ==
    IF Task[id].assigned_to = {}
    THEN <<[id |-> id, user_id |-> NoUser]>>
    ELSE LET us == Ascending(Task[id].assigned_to)
         IN [i \in 1..Len(us) |-> [id |-> id, user_id |-> us[i]]]

RECURSIVE JoinAll(_)
JoinAll(ids) == IF ids = <<>> THEN <<>> ELSE JoinOf(Head(ids)) \o JoinAll(Tail(ids))

TaskJoin == JoinAll(Ascending(DOMAIN Task))

\* .filter(Q(creator=user) | Q(assigned_to=user))
CreatorOrAssigned(user) ==
    LET Q(r) == Task[r.id].creator = user \/ r.user_id = user
    IN SelectSeq(TaskJoin, Q)

\* SELECT DISTINCT over the Task columns of the joined rows
RECURSIVE distinct(_)
distinct(rows) ==
    IF rows = <<>> THEN <<>>
    ELSE LET rest == distinct(Tail(rows))
             NotHead(i) == i # Head(rows)
         IN <<Head(rows)>> \o SelectSeq(rest, NotHead)

Ids(rows) == [i \in 1..Len(rows) |-> rows[i].id]

\* variant: .distinct() is left out
tasks_queryset_with_duplicates(user) ==
    LET NotComp(r) == ~(Task[r.id].status = "COMP")
    IN Ids(SelectSeq(CreatorOrAssigned(user), NotComp))

tasks_queryset(user) ==
    LET NotComp(r) == ~(Task[r.id].status = "COMP")
    IN distinct(Ids(SelectSeq(CreatorOrAssigned(user), NotComp)))

completed_tasks_queryset(user) ==
    LET Comp(r) == Task[r.id].status = "COMP"
    IN distinct(Ids(SelectSeq(CreatorOrAssigned(user), Comp)))

tasks(user) ==
    /\ response' = [Respond("tasks", 200, "") EXCEPT !.rows = tasks_queryset(user)]
    /\ UNCHANGED <<Task, Team, Comment, nextTask, nextComment, today, reqs, accepted, completed, events>>

completed_tasks(user) ==
    /\ response' = [Respond("completed_tasks", 200, "") EXCEPT
                       !.rows = completed_tasks_queryset(user)]
    /\ UNCHANGED <<Task, Team, Comment, nextTask, nextComment, today, reqs, accepted, completed, events>>

\* ---- detail ----
\* variant: what the docstring says, "only task creator and members of task's team"
task_detail_allowed_as_documented(user, task) ==
    IF user = task.creator
    THEN TRUE
    ELSE IF task.team # NoTeam
         THEN IF user \in Team[task.team].members THEN TRUE ELSE FALSE
         ELSE FALSE

task_detail_allowed(user, task) ==
    IF user = task.creator \/ user \in task.assigned_to
    THEN TRUE
    ELSE IF task.team # NoTeam
         THEN IF user \in Team[task.team].members THEN TRUE ELSE FALSE
         ELSE FALSE

task_detail(user, task_id) ==
    /\ IF task_id \notin DOMAIN Task
       THEN response' = Respond("task_detail", 404, "")
       ELSE IF task_detail_allowed(user, Task[task_id])
            THEN response' = [Respond("task_detail", 200, "") EXCEPT !.rows = <<task_id>>]
            ELSE response' = Respond("task_detail", 403, "")
    /\ UNCHANGED <<Task, Team, Comment, nextTask, nextComment, today, reqs, accepted, completed, events>>

\* ---- accept / mark completed ----
\* variant: the status test is left out
task_accept_permitted_any_status(user, task, assigned_to) == user \in assigned_to

\* lines 170-171; assigned_to is what task.assigned_to.all() returns
task_accept_permitted(user, task, assigned_to) ==
    IF user \in assigned_to
    THEN IF task.status = "PLAN" THEN TRUE ELSE FALSE
    ELSE FALSE

\* variant: accepted_by is not recorded
task_accept_update_without_user(task, user) ==
    [task EXCEPT !.status = "PROG", !.accepted_date = today]

\* lines 172-174
task_accept_update(task, user) ==
    [task EXCEPT !.status = "PROG", !.accepted_date = today, !.accepted_by = user]

task_accept(user, task_id) ==
    /\ IF task_id \notin DOMAIN Task
       THEN /\ UNCHANGED <<Task, accepted>>
            /\ response' = Respond("task_accept", 404, "")
       ELSE LET task == Task[task_id]
            IN IF task_accept_permitted(user, task, task.assigned_to)
               THEN /\ Task' = [Task EXCEPT ![task_id] = task_accept_update(task, user)]
                    /\ accepted' = [accepted EXCEPT ![task_id] = @ + 1]
                    /\ response' = Respond("task_accept", 302, "success")
               ELSE /\ UNCHANGED <<Task, accepted>>
                    /\ response' = Respond("task_accept", 403, "")
    /\ UNCHANGED <<Team, Comment, nextTask, nextComment, today, reqs, completed, events>>

\* variant: any user may complete
task_mark_completed_permitted_anyone(user, task, assigned_to) == task.status = "PROG"

\* variant: the status test is left out
task_mark_completed_permitted_any_status(user, task, assigned_to) ==
    user = task.creator \/ user \in assigned_to

\* lines 191-192
task_mark_completed_permitted(user, task, assigned_to) ==
    IF user = task.creator \/ user \in assigned_to
    THEN IF task.status = "PROG" THEN TRUE ELSE FALSE
    ELSE FALSE

\* lines 193-194
task_mark_completed_update(task) ==
    [task EXCEPT !.status = "COMP", !.completed_date = today]

task_mark_completed(user, task_id) ==
    /\ IF task_id \notin DOMAIN Task
       THEN /\ UNCHANGED <<Task, completed>>
            /\ response' = Respond("task_mark_completed", 404, "")
       ELSE LET task == Task[task_id]
            IN IF task_mark_completed_permitted(user, task, task.assigned_to)
               THEN /\ Task' = [Task EXCEPT ![task_id] = task_mark_completed_update(task)]
                    /\ completed' = [completed EXCEPT ![task_id] = @ + 1]
                    /\ response' = Respond("task_mark_completed", 302, "success")
               ELSE /\ UNCHANGED <<Task, completed>>
                    /\ response' = Respond("task_mark_completed", 403, "")
    /\ UNCHANGED <<Team, Comment, nextTask, nextComment, today, reqs, accepted, events>>

\* ---- comment ----
IsSpace(c) == c \in {" ", "\t", "\n", "\r"}

RECURSIVE lstrip(_)
lstrip(s) == IF s # <<>> /\ IsSpace(Head(s)) THEN lstrip(Tail(s)) ELSE s

RECURSIVE rstrip(_)
rstrip(s) ==
    IF s # <<>> /\ IsSpace(s[Len(s)]) THEN rstrip(SubSeq(s, 1, Len(s) - 1)) ELSE s

\* variant: the body is not stripped
strip_forgotten(s) == s

\* str.strip()
strip(s) == rstrip(lstrip(s))

task_comment_allowed(user, task) ==
    IF user = task.creator \/ user \in task.assigned_to
    THEN TRUE
    ELSE IF task.team # NoTeam
         THEN IF user \in Team[task.team].members THEN TRUE ELSE FALSE
         ELSE FALSE

\* has_body = FALSE: the POST carries no comment_body key, POST.get() is None
task_comment(user, task_id, has_body, comment_body) ==
    /\ nextComment < MaxComments
    /\ ~has_body => comment_body = <<>>
    /\ IF task_id \notin DOMAIN Task
       THEN /\ UNCHANGED <<Comment, nextComment>>
            /\ response' = Respond("task_comment", 404, "")
       ELSE IF task_comment_allowed(user, Task[task_id])
            THEN IF ~has_body
                 THEN /\ UNCHANGED <<Comment, nextComment>>
                      /\ response' = Respond("task_comment", 500, "")
                 ELSE IF strip(comment_body) # <<>>
                      THEN /\ Comment' = Comment @@ ((nextComment + 1) :>
                                  [author |-> user, task |-> task_id, body |-> comment_body])
                           /\ nextComment' = nextComment + 1
                           /\ response' = Respond("task_comment", 302, "success")
                      ELSE /\ UNCHANGED <<Comment, nextComment>>
                           /\ response' = Respond("task_comment", 302, "error")
            ELSE /\ UNCHANGED <<Comment, nextComment>>
                 /\ response' = Respond("task_comment", 403, "")
    /\ UNCHANGED <<Task, Team, nextTask, today, reqs, accepted, completed, events>>

\* a GET carries no form, and of a form that does not validate nothing is read
NoFormData(method, form_valid) == method = "GET" \/ ~form_valid

Next ==
    \/ Tick
    \/ \E u \in Users : team_create(u)
    \/ \E u, m \in Users, g \in TeamIds : team_add_member(u, g, m)
    \/ \E u, m \in Users, g \in TeamIds : team_remove_member(u, g, m)
    \/ \E u \in Users, method \in {"GET", "POST"}, valid \in BOOLEAN, g \in {NoTeam} \cup TeamIds :
           /\ NoFormData(method, valid) => g = NoTeam
           /\ task_create(u, method, valid, g)
    \/ \E u \in Users, t \in TaskIds, method \in {"GET", "POST"}, valid \in BOOLEAN,
          g \in {NoTeam} \cup TeamIds, a \in SUBSET Users :
           /\ NoFormData(method, valid) => g = NoTeam /\ a = {}
           /\ task_edit(u, t, method, valid, g, a)
    \/ \E u \in Users, t \in TaskIds : task_delete(u, t)
    \/ \E u \in Users : tasks(u)
    \/ \E u \in Users : completed_tasks(u)
    \/ \E u \in Users, t \in TaskIds : task_detail(u, t)
    \/ \E u \in Users, t \in TaskIds : task_accept(u, t)
    \/ \E u \in Users, t \in TaskIds : task_mark_completed(u, t)
    \/ \E u \in Users, t \in TaskIds, has_body \in BOOLEAN, body \in Bodies :
           task_comment(u, t, has_body, body)

Spec == Init /\ [][Next]_vars

\* ------------------------------------------------------------------------
\* Requests served concurrently.  A handler is three steps, as its ORM calls
\* are: get_object_or_404 loads the row into the request's own `task`
\* instance; the permission test reads creator and status from that instance
\* and assigned_to from the store (task.assigned_to.all() is a query); then
\* task.save() writes every column of the instance (UPDATE by primary key,
\* INSERT when no row has that key) or task.delete() removes the row.
\* ------------------------------------------------------------------------
Idle == [view |-> "", user |-> NoUser, task_id |-> 0, pc |-> "idle", task |-> NewTask,
         code |-> 0]

InitConc ==
    /\ Team = (1 :> [leader |-> 1, members |-> Users])
    /\ \E a \in SUBSET Users :
           Task = (1 :> [NewTask EXCEPT !.creator = 1, !.team = 1, !.assigned_to = a])
    /\ Comment = <<>>
    /\ nextTask = 1
    /\ nextComment = 0
    /\ today = 0
    /\ response = NoResponse
    /\ reqs = [r \in ReqIds |-> Idle]
    /\ accepted = [t \in TaskIds |-> 0]
    /\ completed = [t \in TaskIds |-> 0]
    /\ events = {}

\* get_object_or_404(Task, id=task_id)
load(r, view, user, task_id) ==
    /\ reqs[r].pc = "idle"
    /\ reqs' = [reqs EXCEPT ![r] =
                  IF task_id \in DOMAIN Task
                  THEN [view |-> view, user |-> user, task_id |-> task_id, pc |-> "check",
                        task |-> Task[task_id], code |-> 0]
                  ELSE [view |-> view, user |-> user, task_id |-> task_id, pc |-> "done",
                        task |-> NewTask, code |-> 404]]
    /\ UNCHANGED <<Task, Team, Comment, nextTask, nextComment, today, response,
                   accepted, completed, events>>

\* task.assigned_to.all(), asked of the store when the test runs
assigned_to_all(task_id) ==
    IF task_id \in DOMAIN Task THEN Task[task_id].assigned_to ELSE {}

\* task.save() of a loaded instance: every column, none of the assigned_to rows
save(task_id, task) ==
    IF task_id \in DOMAIN Task
    THEN [Task EXCEPT ![task_id] = [task EXCEPT !.assigned_to = Task[task_id].assigned_to]]
    ELSE Task @@ (task_id :> [task EXCEPT !.assigned_to = {}])

task_accept_load(r, user, task_id) == load(r, "task_accept", user, task_id)

task_accept_check(r) ==
    /\ reqs[r].view = "task_accept" /\ reqs[r].pc = "check"
    /\ LET q == reqs[r]
       IN reqs' = [reqs EXCEPT ![r] =
                     IF task_accept_permitted(q.user, q.task, assigned_to_all(q.task_id))
                     THEN [q EXCEPT !.task = task_accept_update(q.task, q.user),
                                    !.pc = "write"]
                     ELSE [q EXCEPT !.pc = "done", !.code = 403]]
    /\ UNCHANGED <<Task, Team, Comment, nextTask, nextComment, today, response,
                   accepted, completed, events>>

task_accept_save(r) ==
    /\ reqs[r].view = "task_accept" /\ reqs[r].pc = "write"
    /\ LET q == reqs[r]
       IN /\ Task' = save(q.task_id, q.task)
          /\ events' = events \cup (IF q.task_id \in DOMAIN Task THEN {} ELSE {"resurrected"})
          /\ accepted' = [accepted EXCEPT ![q.task_id] = @ + 1]
          /\ reqs' = [reqs EXCEPT ![r] = [q EXCEPT !.pc = "done", !.code = 302]]
    /\ UNCHANGED <<Team, Comment, nextTask, nextComment, today, response, completed>>

task_mark_completed_load(r, user, task_id) == load(r, "task_mark_completed", user, task_id)

task_mark_completed_check(r) ==
    /\ reqs[r].view = "task_mark_completed" /\ reqs[r].pc = "check"
    /\ LET q == reqs[r]
       IN reqs' = [reqs EXCEPT ![r] =
                     IF task_mark_completed_permitted(q.user, q.task,
                                                      assigned_to_all(q.task_id))
                     THEN [q EXCEPT !.task = task_mark_completed_update(q.task),
                                    !.pc = "write"]
                     ELSE [q EXCEPT !.pc = "done", !.code = 403]]
    /\ UNCHANGED <<Task, Team, Comment, nextTask, nextComment, today, response,
                   accepted, completed, events>>

task_mark_completed_save(r) ==
    /\ reqs[r].view = "task_mark_completed" /\ reqs[r].pc = "write"
    /\ LET q == reqs[r]
       IN /\ Task' = save(q.task_id, q.task)
          /\ events' = events \cup (IF q.task_id \in DOMAIN Task THEN {} ELSE {"resurrected"})
          /\ completed' = [completed EXCEPT ![q.task_id] = @ + 1]
          /\ reqs' = [reqs EXCEPT ![r] = [q EXCEPT !.pc = "done", !.code = 302]]
    /\ UNCHANGED <<Team, Comment, nextTask, nextComment, today, response, accepted>>

task_delete_load(r, user, task_id) == load(r, "task_delete", user, task_id)

task_delete_check(r) ==
    /\ reqs[r].view = "task_delete" /\ reqs[r].pc = "check"
    /\ LET q == reqs[r]
       IN reqs' = [reqs EXCEPT ![r] =
                     IF task_delete_permitted(q.user, q.task)
                     THEN [q EXCEPT !.pc = "write"]
                     ELSE [q EXCEPT !.pc = "done", !.code = 403]]
    /\ UNCHANGED <<Task, Team, Comment, nextTask, nextComment, today, response,
                   accepted, completed, events>>

task_delete_delete(r) ==
    /\ reqs[r].view = "task_delete" /\ reqs[r].pc = "write"
    /\ LET q == reqs[r]
       IN /\ Task' = Remove(Task, q.task_id)
          /\ Comment' = Comment_without(q.task_id)
          /\ events' = events \cup
                (IF q.task_id \in DOMAIN Task /\ Task[q.task_id].status # "PLAN"
                 THEN {"deleted_after_accept"} ELSE {})
          /\ reqs' = [reqs EXCEPT ![r] = [q EXCEPT !.pc = "done", !.code = 302]]
    /\ UNCHANGED <<Team, nextTask, nextComment, today, response, accepted, completed>>

NextConc ==
    \/ \E r \in ReqIds, u \in Users, t \in TaskIds : task_accept_load(r, u, t)
    \/ \E r \in ReqIds : task_accept_check(r)
    \/ \E r \in ReqIds : task_accept_save(r)
    \/ \E r \in ReqIds, u \in Users, t \in TaskIds : task_mark_completed_load(r, u, t)
    \/ \E r \in ReqIds : task_mark_completed_check(r)
    \/ \E r \in ReqIds : task_mark_completed_save(r)
    \/ \E r \in ReqIds, u \in Users, t \in TaskIds : task_delete_load(r, u, t)
    \/ \E r \in ReqIds : task_delete_check(r)
    \/ \E r \in ReqIds : task_delete_delete(r)

SpecConc == InitConc /\ [][NextConc]_vars

\* C10: under every interleaving at most one task_accept and at most one
\* task_mark_completed request succeeds per task, accepted_by stays the user
\* of the successful accept, a delete never removes a task whose stored status
\* has left PLAN, and no late save brings a deleted task back.
C10_RacesAreHarmless ==
    /\ \A t \in TaskIds : accepted[t] <= 1 /\ completed[t] <= 1
    /\ \A r \in ReqIds :
           (reqs[r].view = "task_accept" /\ reqs[r].code = 302
               /\ reqs[r].task_id \in DOMAIN Task)
           => Task[reqs[r].task_id].accepted_by = reqs[r].user
    /\ events = {}

\* the parts of C10, one by one
C10_OneAccept == \A t \in TaskIds : accepted[t] <= 1
C10_OneCompletion == \A t \in TaskIds : completed[t] <= 1
C10_NoDeleteAfterAccept == "deleted_after_accept" \notin events
C10_NoResurrection == "resurrected" \notin events

\* ------------------------------------------------------------------------
\* The list views over a store with several tasks.  The store is one that
\* the handlers leave behind: every user leads a team of all users, created
\* tasks there, assigned them at will (task_edit), and some of the tasks were
\* accepted by an assignee (the first one, say: the views do not read
\* accepted_by) and completed.
\* ------------------------------------------------------------------------
TaskRows ==
    LET planned == {[NewTask EXCEPT !.creator = c, !.team = c, !.assigned_to = a] :
                       c \in Users, a \in SUBSET Users}
        first(a) == CHOOSE u \in a : \A v \in a : u <= v
        accepted_rows == {[row EXCEPT !.status = "PROG", !.accepted_date = 0,
                                      !.accepted_by = first(row.assigned_to)] :
                             row \in {r \in planned : r.assigned_to # {}}}
        completed_rows == {[row EXCEPT !.status = "COMP", !.completed_date = 0] :
                              row \in accepted_rows}
    IN planned \cup accepted_rows \cup completed_rows

InitViews ==
    /\ Team = [g \in Users |-> [leader |-> g, members |-> Users]]
    /\ Task \in [1..MaxListed -> TaskRows]
    /\ Comment = <<>>
    /\ nextTask = MaxListed
    /\ nextComment = 0
    /\ today = 0
    /\ response = NoResponse
    /\ reqs = <<>>
    /\ accepted = [t \in 1..MaxListed |-> IF Task[t].status = "PLAN" THEN 0 ELSE 1]
    /\ completed = [t \in 1..MaxListed |-> IF Task[t].status = "COMP" THEN 1 ELSE 0]
    /\ events = {}

NextViews ==
    \/ \E u \in Users : tasks(u)
    \/ \E u \in Users : completed_tasks(u)

SpecViews == InitViews /\ [][NextViews]_vars

\* ------------------------------------------------------------------------
\* The handlers' contracts under Spec.  IsCreator etc. restate the rules in
\* terms of the store alone.
\* ------------------------------------------------------------------------
IsCreator(u, t)    == u = Task[t].creator
IsAssignee(u, t)   == u \in Task[t].assigned_to
IsTeamMember(u, t) == Task[t].team # NoTeam /\ u \in Team[Task[t].team].members
Store == <<Task, Team, Comment>>
Methods == {"GET", "POST"}

\* C1: task_accept succeeds only for an assignee of a PLAN task, and then sets
\* status PROG, accepted_by the requester and accepted_date today; every other
\* request on a stored task is answered 403 and leaves the store as it was.
C1_AcceptContract ==
    [][\A u \in Users, t \in TaskIds :
          (response'.view = "task_accept" /\ task_accept(u, t) /\ t \in DOMAIN Task) =>
             IF IsAssignee(u, t) /\ Task[t].status = "PLAN"
             THEN /\ response'.code = 302
                  /\ Task' = [Task EXCEPT ![t].status = "PROG", ![t].accepted_by = u,
                                          ![t].accepted_date = today]
                  /\ UNCHANGED <<Team, Comment>>
             ELSE /\ response'.code = 403
                  /\ UNCHANGED Store]_vars

\* an accept was refused on a task that an earlier accept by an assignee other
\* than the creator had moved to PROG
C1_Witness ==
    /\ response.view = "task_accept" /\ response.code = 403
    /\ \E t \in DOMAIN Task :
          Task[t].status = "PROG" /\ accepted[t] = 1 /\ Task[t].accepted_by # Task[t].creator

\* C2: task_mark_completed succeeds only on a PROG task for its creator or an
\* assignee, and then sets status COMP and completed_date today and nothing
\* else; every other request on a stored task is answered 403 and leaves the
\* store as it was.
C2_MarkCompletedContract ==
    [][\A u \in Users, t \in TaskIds :
          (response'.view = "task_mark_completed" /\ task_mark_completed(u, t)
              /\ t \in DOMAIN Task) =>
             IF (IsCreator(u, t) \/ IsAssignee(u, t)) /\ Task[t].status = "PROG"
             THEN /\ response'.code = 302
                  /\ Task' = [Task EXCEPT ![t].status = "COMP", ![t].completed_date = today]
                  /\ UNCHANGED <<Team, Comment>>
             ELSE /\ response'.code = 403
                  /\ UNCHANGED Store]_vars

\* a task whose creator is no longer an assignee, accepted by another user, was
\* marked completed
C2_Witness ==
    /\ response.view = "task_mark_completed" /\ response.code = 302
    /\ \E t \in DOMAIN Task :
          /\ Task[t].status = "COMP" /\ completed[t] = 1
          /\ Task[t].accepted_by # Task[t].creator
          /\ Task[t].creator \notin Task[t].assigned_to

C4_CreateContract ==
    [][\A u \in Users, method \in Methods, valid \in BOOLEAN, g \in {NoTeam} \cup TeamIds :
          (response'.view = "task_create" /\ task_create(u, method, valid, g)) =>
             IF method = "POST" /\ valid
             THEN \E id \in TaskIds \ DOMAIN Task :
                     /\ DOMAIN Task' = DOMAIN Task \cup {id}
                     /\ \A t \in DOMAIN Task : Task'[t] = Task[t]
                     /\ Task'[id].creator = u
                     /\ Task'[id].status = "PLAN"
                     /\ Task'[id].assigned_to = {u}
             ELSE Task' = Task]_vars

\* a user who does not lead the only team has just created a task
C4_Witness ==
    /\ response.view = "task_create" /\ response.code = 302
    /\ \E t \in DOMAIN Task, g \in DOMAIN Team :
          /\ Task[t].creator # Team[g].leader
          /\ Task[t].assigned_to = {Task[t].creator}
          /\ Task[t].status = "PLAN"

\* C5: for every user the completed view lists exactly the COMP tasks the user
\* created or is assigned to, the open view exactly the user's other tasks, no
\* task is listed twice, the two lists are disjoint and together are all the
\* tasks the user created or is assigned to.
Listed(rows) == {rows[i] : i \in 1..Len(rows)}
NoDuplicates(rows) == \A i, j \in 1..Len(rows) : rows[i] = rows[j] => i = j

C5_ListViews ==
    \A u \in Users :
       LET open == tasks_queryset(u)
           done == completed_tasks_queryset(u)
           mine == {t \in DOMAIN Task : IsCreator(u, t) \/ IsAssignee(u, t)}
       IN /\ Listed(done) = {t \in mine : Task[t].status = "COMP"}
          /\ Listed(open) = {t \in mine : Task[t].status # "COMP"}
          /\ NoDuplicates(open) /\ NoDuplicates(done)
          /\ Listed(open) \cap Listed(done) = {}
          /\ Listed(open) \cup Listed(done) = mine
          /\ response.view \in {"tasks", "completed_tasks"} => NoDuplicates(response.rows)

\* the open view has just listed a user's tasks: one of them, listed once, the
\* user created and shares with another assignee (the join has two rows for
\* it); another one, which the user did not create, is completed and not listed
C5_Witness ==
    /\ response.view = "tasks" /\ response.code = 200
    /\ \E u \in Users, t1, t2 \in DOMAIN Task :
          /\ response.rows = tasks_queryset(u)
          /\ t1 \in Listed(response.rows) /\ t2 \notin Listed(response.rows)
          /\ IsCreator(u, t1) /\ IsAssignee(u, t1)
          /\ Cardinality(Task[t1].assigned_to) >= 2
          /\ Task[t2].status = "COMP" /\ IsAssignee(u, t2) /\ ~IsCreator(u, t2)

\* C6: a task_comment request of a permitted user whose comment_body is empty
\* or all whitespace gets an error message and adds no Comment; one with any
\* other body adds exactly one Comment, by the requester on the addressed task.
Blank(body) == \A i \in 1..Len(body) : body[i] # "a"

C6_CommentContract ==
    [][\A u \in Users, t \in DOMAIN Task, body \in Bodies :
          (response'.view = "task_comment" /\ task_comment(u, t, TRUE, body)
              /\ (IsCreator(u, t) \/ IsAssignee(u, t) \/ IsTeamMember(u, t))) =>
             IF Blank(body)
             THEN /\ response'.message = "error"
                  /\ Comment' = Comment
             ELSE \E id \in (DOMAIN Comment') \ DOMAIN Comment :
                     /\ DOMAIN Comment' = DOMAIN Comment \cup {id}
                     /\ \A c \in DOMAIN Comment : Comment'[c] = Comment[c]
                     /\ Comment'[id] = [author |-> u, task |-> t, body |-> body]
                     /\ response'.message = "success"]_vars

\* a comment whose body has blanks around its text was stored for a team member
\* who is neither creator nor assignee
C6_Witness ==
    /\ response.view = "task_comment" /\ response.message = "success"
    /\ \E c \in DOMAIN Comment :
          /\ Comment[c].task \in DOMAIN Task
          /\ Comment[c].body # strip(Comment[c].body)
          /\ ~IsCreator(Comment[c].author, Comment[c].task)
          /\ ~IsAssignee(Comment[c].author, Comment[c].task)

\* C7: task_detail shows a task to exactly the users task_comment lets comment
\* on it: the creator, the assignees and, when the task has a team, the team's
\* members; both answer 403 to everybody else.
Permitted(u, t) == IsCreator(u, t) \/ IsAssignee(u, t) \/ IsTeamMember(u, t)

C9_FieldsFollowStatus ==
    \A t \in DOMAIN Task :
       LET task == Task[t]
       IN /\ task.status \in {"PLAN", "PROG", "COMP"}
          /\ task.status = "PLAN" =>
                /\ task.accepted_by = NoUser
                /\ task.accepted_date = NoDate
                /\ task.completed_date = NoDate
          /\ task.status \in {"PROG", "COMP"} =>
                /\ task.accepted_by \in task.assigned_to
                /\ task.accepted_date \in Days
          /\ task.status = "COMP" =>
                /\ task.completed_date \in Days
                /\ task.accepted_date <= task.completed_date
          /\ task.completed_date # NoDate => task.status = "COMP"

\* a task was completed on a later day than it was accepted
C9_Witness ==
    \E t \in DOMAIN Task :
       /\ Task[t].status = "COMP"
       /\ Task[t].accepted_date < Task[t].completed_date
       /\ Task[t].accepted_by # Task[t].creator
====
